---- MODULE Spec2Model ----
(***************************************************************************)
(* Stripe -> WooCommerce relay: the POST /webhooks/stripe handler of       *)
(* server.js and of its earlier revision (unnamed/part_000), together with *)
(* the WooCommerce REST helpers it awaits.  A delivery runs synchronously  *)
(* up to its first await (the GET of the order), then up to its second     *)
(* await (the PUT of the status), then answers.  Several deliveries may be *)
(* in flight at once; they share nothing but the order backend.            *)
(***************************************************************************)
EXTENDS Integers, Sequences, FiniteSets, TLC

(* ---------------------------- bounds ---------------------------------- *)
\* number of webhook deliveries (handler invocations) the provider starts
MaxDeliveries == 2
\* number of transient order-backend failures (non-2xx or network error)
MaxFail == 1

H == 1..MaxDeliveries

(* ------------------------ texts (as characters) ------------------------ *)
NoSigNeedle == <<"N", "o", " ", "s", "i", "g", "n", "a", "t", "u", "r", "e", "s", " ", "f", "o", "u", "n", "d">>
\* messages of the errors stripe.webhooks.constructEvent throws
MsgMismatch == <<"N", "o", " ", "s", "i", "g", "n", "a", "t", "u", "r", "e", "s", " ", "f", "o", "u", "n", "d", " ", "m", "a", "t", "c", "h", "i", "n", "g", " ", "t", "h", "e", " ", "e", "x", "p", "e", "c", "t", "e", "d", " ", "s", "i", "g", "n", "a", "t", "u", "r", "e", " ", "f", "o", "r", " ", "p", "a", "y", "l", "o", "a", "d">>
MsgMissing == <<"N", "o", " ", "s", "t", "r", "i", "p", "e", "-", "s", "i", "g", "n", "a", "t", "u", "r", "e", " ", "h", "e", "a", "d", "e", "r", " ", "v", "a", "l", "u", "e", " ", "w", "a", "s", " ", "p", "r", "o", "v", "i", "d", "e", "d">>
MsgUnparsable == <<"U", "n", "a", "b", "l", "e", " ", "t", "o", " ", "e", "x", "t", "r", "a", "c", "t", " ", "t", "i", "m", "e", "s", "t", "a", "m", "p", " ", "a", "n", "d", " ", "s", "i", "g", "n", "a", "t", "u", "r", "e", "s", " ", "f", "r", "o", "m", " ", "h", "e", "a", "d", "e", "r">>
MsgStale == <<"T", "i", "m", "e", "s", "t", "a", "m", "p", " ", "o", "u", "t", "s", "i", "d", "e", " ", "t", "h", "e", " ", "t", "o", "l", "e", "r", "a", "n", "c", "e", " ", "z", "o", "n", "e">>
\* message of the TypeError fetch throws when the request itself fails
MsgFetch == <<"f", "e", "t", "c", "h", " ", "f", "a", "i", "l", "e", "d">>
WooGet == <<"W", "o", "o", " ", "G", "E", "T", " ">>
WooPut == <<"W", "o", "o", " ", "P", "U", "T", " ">>
FailedColon == <<" ", "f", "a", "i", "l", "e", "d", ":", " ">>
\* bodies an order backend (or a proxy in front of it) answers a failure with
BodyGateway == <<"B", "a", "d", " ", "G", "a", "t", "e", "w", "a", "y">>
BodyNoSig == <<"N", "o", " ", "s", "i", "g", "n", "a", "t", "u", "r", "e", "s", " ", "f", "o", "u", "n", "d">>
Bodies == {BodyGateway, BodyNoSig}
\* String(null): what parseInt sees when client_reference_id is absent
NullText == <<"n", "u", "l", "l">>

DigitChars == <<"0", "1", "2", "3", "4", "5", "6", "7", "8", "9">>
IsDigit(c) == \E d \in 1..10 : DigitChars[d] = c
DigitVal(c) == (CHOOSE d \in 1..10 : DigitChars[d] = c) - 1

\* template-literal interpolation of a number: its decimal text
RECURSIVE NatText(_)
NatText(n) == IF n < 10 THEN <<DigitChars[n + 1]>>
              ELSE NatText(n \div 10) \o <<DigitChars[(n % 10) + 1]>>
NumText(n) == IF n < 0 THEN <<"-">> \o NatText(0 - n) ELSE NatText(n)

\* String.prototype.slice(0, n)
SliceLen == 200
Slice(t, n) == SubSeq(t, 1, IF Len(t) < n THEN Len(t) ELSE n)

\* String.prototype.includes
Includes(hay, needle) ==
    \E i \in 1..(Len(hay) - Len(needle) + 1) :
        SubSeq(hay, i, i + Len(needle) - 1) = needle

(* ------------------------------ parseInt ------------------------------- *)
NaN == [nan |-> TRUE, val |-> 0]
RECURSIVE DigitsPrefix(_, _, _)
\* value of the longest run of decimal digits of s starting at i (acc so far)
DigitsPrefix(s, i, acc) ==
    IF i > Len(s) \/ ~IsDigit(s[i]) THEN acc
    ELSE DigitsPrefix(s, i + 1, acc * 10 + DigitVal(s[i]))
RECURSIVE SkipSpace(_, _)
SkipSpace(s, i) == IF i <= Len(s) /\ s[i] = " " THEN SkipSpace(s, i + 1) ELSE i
\* parseInt(s, 10): leading blanks, an optional sign, then the digits; NaN
\* when no digit follows
ParseInt(s) ==
    LET i0 == SkipSpace(s, 1)
        neg == i0 <= Len(s) /\ s[i0] = "-"
        i1 == IF i0 <= Len(s) /\ (s[i0] = "-" \/ s[i0] = "+") THEN i0 + 1 ELSE i0
    IN  IF i1 > Len(s) \/ ~IsDigit(s[i1]) THEN NaN
        ELSE [nan |-> FALSE,
              val |-> IF neg THEN 0 - DigitsPrefix(s, i1, 0)
                             ELSE DigitsPrefix(s, i1, 0)]
\* !orderId
Falsy(p) == p.nan \/ p.val = 0

(* --------------------------- order backend ----------------------------- *)
Orders == {1, 2}
Settled == {"processing", "completed"}
Unsettled == {"pending", "cancelled"}
Statuses == Unsettled \cup Settled

\* the ways a fetch against the backend fails: a non-2xx answer with a body,
\* or no answer at all
HttpFailures(o) ==
    {[kind |-> "http", status |-> (IF o \in Orders THEN 503 ELSE 404), body |-> b] :
        b \in Bodies}
Failures(o) == HttpFailures(o) \cup {[kind |-> "network", status |-> 0, body |-> <<>>]}

\* err.message of the Error wcGetOrder / wcUpdateOrderStatus throw
WooMessage(verb, orderId, f) ==
    IF f.kind = "network" THEN MsgFetch
    ELSE verb \o NumText(orderId) \o FailedColon \o NumText(f.status)
              \o <<" ">> \o Slice(f.body, SliceLen)

(* ------------------------- webhook deliveries -------------------------- *)
Revisions == {"server.js", "part_000"}
SigOutcomes == {"ok", "mismatch", "missing", "unparsable", "stale"}
SigErrorMessage(sig) ==
    CASE sig = "mismatch" -> MsgMismatch
      [] sig = "missing" -> MsgMissing
      [] sig = "unparsable" -> MsgUnparsable
      [] sig = "stale" -> MsgStale

Payload(type, mode, ps, ref) ==
    [type |-> type, mode |-> mode, payment_status |-> ps, client_reference_id |-> ref]
PaidFor(ref) == Payload("checkout.session.completed", "payment", "paid", ref)
Payloads ==
    {PaidFor(<<"1">>), PaidFor(<<"2">>), PaidFor(<<"0">>), PaidFor(<<"-", "1">>),
     PaidFor(<<"a", "b", "c">>), PaidFor(NullText),
     Payload("checkout.session.completed", "setup", "no_payment_required", <<"1">>),
     Payload("checkout.session.completed", "payment", "unpaid", <<"1">>),
     Payload("checkout.session.completed", "payment", "no_payment_required", <<"1">>),
     Payload("checkout.session.expired", "payment", "unpaid", <<"1">>),
     Payload("payment_intent.created", "payment", "unpaid", <<"1">>)}
\* what the provider, or anybody else, may post: a payload with the outcome
\* constructEvent will have on it
Deliveries ==
    {<<"ok", p>> : p \in Payloads}
    \cup {<<sig, p>> : sig \in SigOutcomes \ {"ok"},
                      p \in {PaidFor(<<"1">>),
                             Payload("payment_intent.created", "payment", "unpaid", <<"1">>)}}

VARIABLES rev, status, status0, handlers, updates, failBudget, overlapped
\* POST /api/create-checkout: the environment, the requests and the sessions
\* the payment provider holds
VARIABLES env, requests, sessions
webhookVars == <<rev, status, status0, handlers, updates, failBudget, overlapped>>
issuerVars == <<env, requests, sessions>>
vars == <<rev, status, status0, handlers, updates, failBudget, overlapped,
          env, requests, sessions>>


(* ----------------------- POST /api/create-checkout --------------------- *)
\* number of create-checkout requests
MaxRequests == 2
R == 1..MaxRequests

\* String(undefined): what parseInt sees when the body has no orderId
UndefinedText == <<"u", "n", "d", "e", "f", "i", "n", "e", "d">>
OrderPrefix == <<"o", "r", "d", "e", "r", "-">>

\* process.env, as far as the endpoint reads it; "" is an unset variable
Envs ==
    {[INTERNAL_API_KEY |-> k, APP_BASE_URL |-> u] :
        k \in {"", "s3cret"}, u \in {"", "https://app.example"}}
ConfiguredEnv == [INTERNAL_API_KEY |-> "s3cret", APP_BASE_URL |-> "https://app.example"]

\* a JSON value of the body's amountJpy: a number num/den, or not a number
Number(num, den) == [type |-> "number", num |-> num, den |-> den]
NotANumber(t) == [type |-> t, num |-> 0, den |-> 1]
\* Number.isInteger
IsInteger(a) == a.type = "number" /\ a.num % a.den = 0

\* a request: the x-api-key header ("" when absent), the text of the body's
\* orderId and its amountJpy
Request(key, orderId, amountJpy) ==
    [key |-> key, orderId |-> orderId, amountJpy |-> amountJpy]
Requests ==
    {Request("s3cret", o, Number(5980, 1)) :
        o \in {<<"1">>, <<"2">>, <<"0">>, <<"-", "5">>, <<"1", ".", "5">>,
               <<"a", "b", "c">>, UndefinedText}}
    \cup {Request("s3cret", <<"1">>, a) :
        a \in {Number(100, 1), Number(0, 1), Number(0 - 100, 1), Number(3, 2),
               NotANumber("string"), NotANumber("undefined")}}
    \cup {Request(k, o, Number(5980, 1)) :
        k \in {"", "guess"}, o \in {<<"1">>, <<"a", "b", "c">>}}

IdleRequest ==
    [pc |-> "idle", req |-> Request("", <<>>, NotANumber("undefined")), id |-> 0,
     options |-> [idempotencyKey |-> <<>>], calls |-> 0, code |-> 0,
     error |-> "", sessionId |-> 0]

NoPayload == Payload("", "", "", <<>>)
Idle ==
    [pc |-> "idle", sig |-> "ok", ev |-> NoPayload, orderId |-> 0, st0 |-> "none",
     cur |-> "none", gets |-> 0, puts |-> 0, putStatus |-> "none", err |-> "none",
     code |-> 0]

Init ==
    /\ rev \in Revisions
    /\ status \in [Orders -> Statuses]
    /\ status0 = status
    /\ handlers = [h \in H |-> Idle]
    /\ updates = [o \in Orders |-> 0]
    /\ failBudget = MaxFail
    /\ overlapped = FALSE
    /\ env = ConfiguredEnv
    /\ requests = [r \in R |-> IdleRequest]
    /\ sessions = <<>>

(* --------------------- the handler, piece by piece --------------------- *)
\* (variant: the signature is not checked)
VerifiedAlways(sig) == TRUE
\* constructEvent returns the event instead of throwing
Verified(sig) == sig = "ok"

\* (variant: the catch block acknowledges the delivery all the same)
CatchCodeSwallows(r, msg) == 200
\* the catch block: the status code the error is answered with
CatchCode(r, msg) ==
    IF r = "server.js"
    THEN (IF Includes(msg, NoSigNeedle) THEN 400 ELSE 500)
    ELSE 500

\* (variant: the payment_status guard is left out)
CompletedGuardsNoPaidCheck(r, s) ==
    LET orderId == ParseInt(s.client_reference_id)
    IN  IF Falsy(orderId) THEN 0
        ELSE IF s.mode # "payment" THEN 0
        ELSE orderId.val
\* the guards of case 'checkout.session.completed': the order id to
\* reconcile, or 0 when one of them breaks out of the switch
CompletedGuards(r, s) ==
    LET orderId == ParseInt(s.client_reference_id)
    IN  IF r = "server.js"
        THEN (IF Falsy(orderId) THEN 0
              ELSE IF s.mode # "payment" THEN 0
              ELSE IF s.payment_status # "paid" THEN 0
              ELSE orderId.val)
        ELSE (IF s.mode # "payment" THEN 0
              ELSE IF s.payment_status # "paid" THEN 0
              ELSE IF Falsy(orderId) THEN 0
              ELSE orderId.val)

\* (variants: the idempotency test forgets one of the two statuses)
IsSettledOnlyProcessing(curStatus) == curStatus = "processing"
IsSettledOnlyCompleted(curStatus) == curStatus = "completed"
\* curStatus === 'processing' || curStatus === 'completed'
IsSettled(curStatus) == curStatus = "processing" \/ curStatus = "completed"

\* (variant: the order is closed instead of being put in processing)
SettleStatusCompleted == "completed"
\* the status wcUpdateOrderStatus is called with
SettleStatus == "processing"

Answered(rec, c) == [rec EXCEPT !.pc = "done", !.code = c]

\* (variant: an expired session cancels its order)
ExpiredArmCancels(rec) ==
    LET id == ParseInt(rec.ev.client_reference_id)
    IN  IF Falsy(id) \/ id.val \notin Orders THEN Answered(rec, 200)
        ELSE [rec EXCEPT !.pc = "put", !.orderId = id.val, !.puts = 1,
                         !.putStatus = "cancelled"]
\* case 'checkout.session.expired': logs the correlation token and breaks
ExpiredArm(rec) == Answered(rec, 200)

\* (variant: an event type the switch does not know is an error)
DefaultArmThrows(rec) == Answered(rec, 500)
\* default: breaks
DefaultArm(rec) == Answered(rec, 200)

\* the synchronous prefix of the handler: from the request to either the
\* answer or the first await
Start(sig, ev) ==
    LET rec == [Idle EXCEPT !.sig = sig, !.ev = ev]
    IN  IF ~Verified(sig) THEN Answered(rec, CatchCode(rev, SigErrorMessage(sig)))
        ELSE IF ev.type = "checkout.session.completed"
        THEN LET id == CompletedGuards(rev, ev)
             IN  IF id = 0 THEN Answered(rec, 200)
                 ELSE [rec EXCEPT !.pc = "get", !.orderId = id, !.gets = 1,
                                  !.st0 = IF id \in Orders THEN status[id] ELSE "none"]
        ELSE IF ev.type = "checkout.session.expired" THEN ExpiredArm(rec)
        ELSE DefaultArm(rec)

InFlight(h) == handlers[h].pc \in {"get", "put"}

\* the provider posts an event to /webhooks/stripe
Deliver(h, sig, ev) ==
    /\ handlers[h].pc = "idle"
    /\ \A k \in H : k < h => handlers[k].pc # "idle"
    /\ handlers' = [handlers EXCEPT ![h] = Start(sig, ev)]
    /\ overlapped' = (overlapped \/ \E k \in H \ {h} : InFlight(k))
    /\ UNCHANGED <<rev, status, status0, updates, failBudget>>
    /\ UNCHANGED issuerVars

\* the provider posts again an event that was answered with a 5xx
Redeliver(h) ==
    /\ handlers[h].pc = "done"
    /\ handlers[h].code >= 500
    /\ handlers' = [handlers EXCEPT ![h] = Start(handlers[h].sig, handlers[h].ev)]
    /\ overlapped' = (overlapped \/ \E k \in H \ {h} : InFlight(k))
    /\ UNCHANGED <<rev, status, status0, updates, failBudget>>
    /\ UNCHANGED issuerVars

\* wcGetOrder resolves; the handler runs on to its answer or to the PUT
ReadOk(h) ==
    LET rec == handlers[h]
        curStatus == status[rec.orderId]
    IN  /\ rec.pc = "get"
        /\ rec.orderId \in Orders
        /\ handlers' = [handlers EXCEPT ![h] =
              IF IsSettled(curStatus)
              THEN Answered([rec EXCEPT !.cur = curStatus], 200)
              ELSE [rec EXCEPT !.cur = curStatus, !.pc = "put",
                               !.puts = rec.puts + 1, !.putStatus = SettleStatus]]
        /\ UNCHANGED <<rev, status, status0, updates, failBudget, overlapped>>
        /\ UNCHANGED issuerVars

\* a failure of the backend that costs nothing of the failure budget: the
\* 404 of an order the backend does not have
Permanent(o, f) == o \notin Orders /\ f.kind = "http"

\* wcGetOrder throws
ReadFail(h, f) ==
    LET rec == handlers[h]
    IN  /\ rec.pc = "get"
        /\ f \in Failures(rec.orderId)
        /\ Permanent(rec.orderId, f) \/ failBudget > 0
        /\ failBudget' = IF Permanent(rec.orderId, f) THEN failBudget ELSE failBudget - 1
        /\ handlers' = [handlers EXCEPT ![h] =
              Answered([rec EXCEPT !.err = "get"],
                       CatchCode(rev, WooMessage(WooGet, rec.orderId, f)))]
        /\ UNCHANGED <<rev, status, status0, updates, overlapped>>
        /\ UNCHANGED issuerVars

\* (variant: the PUT is not addressed to the one order)
WriteOkEveryOrder(h) ==
    LET rec == handlers[h]
    IN  /\ rec.pc = "put"
        /\ status' = [o \in Orders |-> rec.putStatus]
        /\ updates' = [o \in Orders |-> updates[o] + 1]
        /\ handlers' = [handlers EXCEPT ![h] = Answered(rec, 200)]
        /\ UNCHANGED <<rev, status0, failBudget, overlapped>>
        /\ UNCHANGED issuerVars
\* wcUpdateOrderStatus resolves: the backend has stored the status
WriteOk(h) ==
    LET rec == handlers[h]
    IN  /\ rec.pc = "put"
        /\ status' = [status EXCEPT ![rec.orderId] = rec.putStatus]
        /\ updates' = [updates EXCEPT ![rec.orderId] = @ + 1]
        /\ handlers' = [handlers EXCEPT ![h] = Answered(rec, 200)]
        /\ UNCHANGED <<rev, status0, failBudget, overlapped>>
        /\ UNCHANGED issuerVars

\* wcUpdateOrderStatus throws
WriteFail(h, f) ==
    LET rec == handlers[h]
    IN  /\ rec.pc = "put"
        /\ f \in Failures(rec.orderId)
        /\ failBudget > 0
        /\ failBudget' = failBudget - 1
        /\ handlers' = [handlers EXCEPT ![h] =
              Answered([rec EXCEPT !.err = "put"],
                       CatchCode(rev, WooMessage(WooPut, rec.orderId, f)))]
        /\ UNCHANGED <<rev, status, status0, updates, overlapped>>
        /\ UNCHANGED issuerVars

AllFailures == UNION {Failures(o) : o \in Orders \cup {0 - 1}}

Next ==
    \/ \E h \in H, d \in Deliveries : Deliver(h, d[1], d[2])
    \/ \E h \in H : Redeliver(h)
    \/ \E h \in H : ReadOk(h)
    \/ \E h \in H, f \in AllFailures : ReadFail(h, f)
    \/ \E h \in H : WriteOk(h)
    \/ \E h \in H, f \in AllFailures : WriteFail(h, f)

Spec == Init /\ [][Next]_vars


\* the provider redelivers what was answered 5xx, and every fetch that was
\* started ends, one way or the other
LiveSpec ==
    /\ Init
    /\ [][Next]_vars
    /\ \A h \in H : WF_vars(Redeliver(h))
    /\ \A h \in H : WF_vars(ReadOk(h) \/ \E f \in AllFailures : ReadFail(h, f))
    /\ \A h \in H : WF_vars(WriteOk(h) \/ \E f \in AllFailures : WriteFail(h, f))

(* ------------------ the create-checkout handler ------------------------ *)
\* requiredEnv(name): the value, or the throw of `${name} is required`
RequiredEnv(name) ==
    IF env[name] = "" THEN [ok |-> FALSE, value |-> ""]
    ELSE [ok |-> TRUE, value |-> env[name]]

\* (variant: any key that is present is accepted)
KeyRejectedOnlyWhenMissing(key, expected) == key = ""
\* !key || key !== requiredEnv('INTERNAL_API_KEY')
KeyRejected(key, expected) == key = "" \/ key # expected

\* !id || !Number.isInteger(id)
InvalidOrderId(id) == Falsy(id) \/ id.nan
\* !Number.isInteger(amountJpy) || amountJpy <= 0
InvalidAmount(amountJpy) == ~IsInteger(amountJpy) \/ amountJpy.num <= 0

\* (variant: the idempotency key also depends on the amount)
SessionOptionsKeyedByAmount(id, amountJpy) ==
    [idempotencyKey |-> OrderPrefix \o NumText(id) \o <<"-">> \o NumText(amountJpy.num)]
\* the options of stripe.checkout.sessions.create
SessionOptions(id, amountJpy) == [idempotencyKey |-> OrderPrefix \o NumText(id)]

Replied(rec, c, e) == [rec EXCEPT !.pc = "done", !.code = c, !.error = e]

\* the synchronous prefix of the handler: from the request to either the
\* answer or the await of the provider
StartCheckout(req) ==
    LET rec == [IdleRequest EXCEPT !.req = req]
        expected == RequiredEnv("INTERNAL_API_KEY")
        id == ParseInt(req.orderId)
        appBase == RequiredEnv("APP_BASE_URL")
    IN  IF req.key # "" /\ ~expected.ok
        THEN Replied(rec, 400, "INTERNAL_API_KEY is required")
        ELSE IF KeyRejected(req.key, expected.value) THEN Replied(rec, 401, "UNAUTHORIZED")
        ELSE IF InvalidOrderId(id) THEN Replied(rec, 400, "INVALID_ORDER_ID")
        ELSE IF InvalidAmount(req.amountJpy)
        THEN Replied(rec, 400, "INVALID_AMOUNT_JPY_INTEGER_REQUIRED")
        ELSE IF ~appBase.ok THEN Replied(rec, 400, "APP_BASE_URL is required")
        ELSE [rec EXCEPT !.pc = "create", !.id = id.val, !.calls = 1,
                         !.options = SessionOptions(id.val, req.amountJpy)]

\* a client posts to /api/create-checkout
CreateCheckout(r, req) ==
    /\ requests[r].pc = "idle"
    /\ \A k \in R : k < r => requests[k].pc # "idle"
    /\ requests' = [requests EXCEPT ![r] = StartCheckout(req)]
    /\ UNCHANGED <<env, sessions>>
    /\ UNCHANGED webhookVars

\* the sessions the provider holds under an idempotency key
HeldUnder(key) == {i \in 1..Len(sessions) : sessions[i].key = key}

\* stripe.checkout.sessions.create resolves: the provider answers with the
\* session it holds under the idempotency key, or with a new one
ProviderCreates(r) ==
    LET rec == requests[r]
        key == rec.options.idempotencyKey
        held == HeldUnder(key)
        sid == IF held = {} THEN Len(sessions) + 1 ELSE CHOOSE i \in held : TRUE
    IN  /\ rec.pc = "create"
        /\ sessions' =
              IF held = {}
              THEN Append(sessions,
                          [id |-> sid, key |-> key,
                           client_reference_id |-> NumText(rec.id),
                           unit_amount |-> rec.req.amountJpy.num])
              ELSE sessions
        /\ requests' = [requests EXCEPT ![r] =
              [rec EXCEPT !.pc = "done", !.code = 200, !.sessionId = sid]]
        /\ UNCHANGED env
        /\ UNCHANGED webhookVars

\* stripe.checkout.sessions.create throws
ProviderFails(r) ==
    /\ requests[r].pc = "create"
    /\ requests' = [requests EXCEPT ![r] = Replied(requests[r], 400, "FAILED")]
    /\ UNCHANGED <<env, sessions>>
    /\ UNCHANGED webhookVars

IssuerInit ==
    /\ env \in Envs
    /\ requests = [r \in R |-> IdleRequest]
    /\ sessions = <<>>
    /\ rev = "server.js"
    /\ status = [o \in Orders |-> "pending"]
    /\ status0 = status
    /\ handlers = [h \in H |-> Idle]
    /\ updates = [o \in Orders |-> 0]
    /\ failBudget = MaxFail
    /\ overlapped = FALSE

IssuerNext ==
    \/ \E r \in R, req \in Requests : CreateCheckout(r, req)
    \/ \E r \in R : ProviderCreates(r)
    \/ \E r \in R : ProviderFails(r)

IssuerSpec == IssuerInit /\ [][IssuerNext]_vars

(* ============================ properties =============================== *)
PaidCompleted(ev) ==
    /\ ev.type = "checkout.session.completed"
    /\ ev.mode = "payment"
    /\ ev.payment_status = "paid"
\* the order the correlation token of delivery h names
RefOrder(h) == ParseInt(handlers[h].ev.client_reference_id).val
\* delivery h is a verified paid Completed event for an order of the backend
Reconciling(h) ==
    /\ handlers[h].pc # "idle"
    /\ handlers[h].sig = "ok"
    /\ PaidCompleted(handlers[h].ev)
    /\ RefOrder(h) \in Orders
Done(h) == handlers[h].pc = "done"

\* C1 (as stated): a verified paid Completed event for an order that is
\* 'processing' or 'completed' makes no write, leaves the status as it was and
\* is answered 200.
C1_ReplayAcknowledged ==
    \A h \in H :
        (Done(h) /\ Reconciling(h) /\ handlers[h].st0 \in Settled)
        => /\ handlers[h].puts = 0
           /\ status[RefOrder(h)] = handlers[h].st0
           /\ handlers[h].code = 200

\* C1 (amended): such a delivery never writes and never changes the status;
\* it is answered 200 when the read of the order succeeds.
C1_ReplayIdempotent ==
    \A h \in H :
        (Reconciling(h) /\ handlers[h].st0 \in Settled)
        => /\ handlers[h].puts = 0
           /\ status[RefOrder(h)] = handlers[h].st0
           /\ (Done(h) /\ handlers[h].err = "none" => handlers[h].code = 200)
C1_Witness ==
    \E h \in H :
        /\ Done(h) /\ Reconciling(h) /\ handlers[h].st0 \in Settled
        /\ handlers[h].gets = 1 /\ handlers[h].err = "none" /\ handlers[h].code = 200

\* C2: a verified paid Completed event whose read finds the order neither
\* 'processing' nor 'completed', with no failing backend call, issues exactly
\* one update, of value 'processing', and is answered 200.
C2_Settlement ==
    \A h \in H :
        (Done(h) /\ Reconciling(h) /\ handlers[h].cur \in Unsettled
            /\ handlers[h].err = "none")
        => /\ handlers[h].puts = 1
           /\ handlers[h].putStatus = "processing"
           /\ status[RefOrder(h)] = "processing"
           /\ updates[RefOrder(h)] >= 1
           /\ handlers[h].code = 200
C2_Witness ==
    \E h \in H :
        /\ Done(h) /\ Reconciling(h) /\ handlers[h].cur \in Unsettled
        /\ handlers[h].err = "none" /\ handlers[h].puts = 1 /\ handlers[h].code = 200

\* C3: an order that starts neither 'processing' nor 'completed' receives at
\* most one update, however the deliveries for it interleave.
C3_AtMostOneUpdate ==
    \A o \in Orders : status0[o] \in Unsettled => updates[o] <= 1

\* C4: no step changes the status of an order that is 'processing' or
\* 'completed'.
C4_NoBackwardTransition ==
    [][\A o \in Orders : status[o] \in Settled => status'[o] = status[o]]_vars
C4_Witness ==
    \E h \in H :
        /\ Done(h) /\ Reconciling(h)
        /\ status0[RefOrder(h)] = "completed" /\ status[RefOrder(h)] = "completed"
        /\ handlers[h].code = 200

\* C5: a step that handles a delivery whose signature verification fails
\* answers at once, reads nothing, writes nothing and changes no status.
C5_NoTransitionOnUnverified ==
    [][\A h \in H :
          (handlers'[h] # handlers[h] /\ handlers'[h].sig # "ok")
          => /\ handlers'[h].pc = "done"
             /\ handlers'[h].gets = 0
             /\ handlers'[h].puts = 0
             /\ status' = status
             /\ updates' = updates]_vars
C5_Witness ==
    \E h \in H :
        /\ Done(h) /\ handlers[h].sig # "ok"
        /\ handlers[h].ev = PaidFor(<<"1">>)
        /\ status[1] \in Unsettled
        /\ handlers[h].gets = 0

\* C6: every delivery whose signature verification fails is answered 4xx.
C6_SignatureFailureIsClientError ==
    \A h \in H :
        (Done(h) /\ handlers[h].sig # "ok")
        => (handlers[h].code >= 400 /\ handlers[h].code <= 499)

\* C7: every delivery whose read or write of the order fails is answered 5xx.
C7_BackendFailureIsServerError ==
    \A h \in H :
        (Done(h) /\ handlers[h].err # "none")
        => (handlers[h].code >= 500 /\ handlers[h].code <= 599)

\* C8: a verified paid Completed event for an order that starts neither
\* 'processing' nor 'completed' is eventually answered 200 with the order
\* settled, the provider redelivering after every 5xx and the backend failing
\* only finitely often.
C8_EventualSettlement ==
    \A h \in H :
        []((IF Reconciling(h) THEN status0[RefOrder(h)] \in Unsettled ELSE FALSE)
            => <>(IF Reconciling(h)
                  THEN Done(h) /\ handlers[h].code = 200
                       /\ status[RefOrder(h)] \in Settled
                  ELSE FALSE))

\* C9: once deliveries handled one after another, with no backend failure,
\* are all answered, an order that started neither 'processing' nor
\* 'completed' and got at least one verified paid Completed event has been
\* written exactly once.
C9_OneWritePerOrder ==
    \A o \in Orders :
        (/\ ~overlapped
         /\ failBudget = MaxFail
         /\ status0[o] \in Unsettled
         /\ \A h \in H : ~InFlight(h)
         /\ \E h \in H : Reconciling(h) /\ RefOrder(h) = o)
        => /\ updates[o] = 1
           /\ Cardinality({h \in H : handlers[h].orderId = o /\ handlers[h].puts > 0}) = 1
C9_Witness ==
    \E o \in Orders :
        /\ ~overlapped /\ failBudget = MaxFail /\ status0[o] \in Unsettled
        /\ \A h \in H : ~InFlight(h)
        /\ Cardinality({h \in H : Reconciling(h) /\ RefOrder(h) = o}) >= 2
        /\ updates[o] = 1

\* C10: no step moves an order out of 'cancelled'.
C10_CancelledIsTerminal ==
    [][\A o \in Orders : status[o] = "cancelled" => status'[o] = "cancelled"]_vars


\* delivery h carries a verified event
VerifiedDelivery(h) == handlers[h].pc # "idle" /\ handlers[h].sig = "ok"
\* delivery h made no call to the order backend and was answered 200
Ignored(h) ==
    /\ Done(h)
    /\ handlers[h].gets = 0
    /\ handlers[h].puts = 0
    /\ handlers[h].code = 200

\* C11: a verified Completed event whose mode is not 'payment' or whose
\* payment_status is not 'paid' is answered 200 with no read and no write.
C11_UnpaidIgnored ==
    \A h \in H :
        (/\ VerifiedDelivery(h)
         /\ handlers[h].ev.type = "checkout.session.completed"
         /\ ~PaidCompleted(handlers[h].ev))
        => Ignored(h) /\ handlers[h].cur = "none"
C11_Witness ==
    \E h \in H :
        /\ VerifiedDelivery(h)
        /\ handlers[h].ev.type = "checkout.session.completed"
        /\ handlers[h].ev.mode = "payment"
        /\ handlers[h].ev.payment_status = "unpaid"
        /\ RefOrder(h) \in Orders
        /\ status[RefOrder(h)] \in Unsettled
        /\ Ignored(h)

\* the correlation token parses to a positive integer
PositiveRef(ev) ==
    LET p == ParseInt(ev.client_reference_id) IN ~p.nan /\ p.val > 0

\* C12: a verified paid Completed event whose client_reference_id does not
\* parse to a positive integer is answered 200 with no read and no write.
C12_BadReferenceIgnored ==
    \A h \in H :
        (VerifiedDelivery(h) /\ PaidCompleted(handlers[h].ev)
            /\ ~PositiveRef(handlers[h].ev))
        => Ignored(h)

\* C13: a verified event of a type other than checkout.session.completed and
\* checkout.session.expired is answered 200 with no call to the order backend.
C13_UnknownTypeIgnored ==
    \A h \in H :
        (VerifiedDelivery(h)
            /\ handlers[h].ev.type
                 \notin {"checkout.session.completed", "checkout.session.expired"})
        => Ignored(h)
C13_Witness ==
    \E h \in H :
        /\ VerifiedDelivery(h)
        /\ handlers[h].ev.type = "payment_intent.created"
        /\ Ignored(h)

\* C14: the step that handles a verified checkout.session.expired event
\* answers 200 at once, with no read and no write, and changes no order.
C14_ExpiredMutatesNothing ==
    [][\A h \in H :
          (/\ handlers'[h] # handlers[h]
           /\ handlers'[h].sig = "ok"
           /\ handlers'[h].ev.type = "checkout.session.expired")
          => /\ handlers'[h].pc = "done"
             /\ handlers'[h].code = 200
             /\ handlers'[h].gets = 0
             /\ handlers'[h].puts = 0
             /\ status' = status
             /\ updates' = updates]_vars
C14_Witness ==
    \E h \in H :
        /\ VerifiedDelivery(h)
        /\ handlers[h].ev.type = "checkout.session.expired"
        /\ RefOrder(h) \in Orders
        /\ status[RefOrder(h)] \in Unsettled
        /\ Ignored(h)


\* C18: a delivery makes at most one GET and at most one PUT; a PUT comes
\* after the GET of the same delivery has returned a status, and carries
\* 'processing'; no order ever gets another value.
C18_ReadBeforeWrite ==
    /\ \A h \in H :
          /\ handlers[h].gets <= 1
          /\ handlers[h].puts <= 1
          /\ handlers[h].puts > 0
                => /\ handlers[h].gets = 1
                   /\ handlers[h].err # "get"
                   /\ handlers[h].cur \in Statuses
                   /\ handlers[h].orderId \in Orders
                   /\ handlers[h].putStatus = "processing"
    /\ \A o \in Orders : status[o] # status0[o] => status[o] = "processing"
C18_Witness ==
    \E h \in H :
        /\ Done(h) /\ handlers[h].gets = 1 /\ handlers[h].puts = 1
        /\ handlers[h].code = 200
        /\ status[handlers[h].orderId] # status0[handlers[h].orderId]

\* what the deliveries for order o alone make of it
FinalStatus(o) ==
    IF /\ status0[o] \in Unsettled
       /\ \E h \in H : Reconciling(h) /\ RefOrder(h) = o /\ Done(h)
                       /\ handlers[h].code = 200
    THEN "processing"
    ELSE status0[o]

\* C19: a step of a delivery changes no order but the one its correlation
\* token names, and whenever no delivery for an order is in flight the status
\* of that order is what its own deliveries make of it, whatever deliveries for
\* other orders have run, or are running, in between.
C19_OrdersIndependent ==
    /\ [][\A h \in H :
            handlers'[h] # handlers[h]
            => \A o \in Orders :
                  o # handlers'[h].orderId
                  => status'[o] = status[o] /\ updates'[o] = updates[o]]_vars
    /\ [](\A o \in Orders :
            (\A h \in H : ~(InFlight(h) /\ handlers[h].orderId = o))
            => status[o] = FinalStatus(o))
C19_Witness ==
    /\ overlapped
    /\ \E h1, h2 \in H :
          /\ Reconciling(h1) /\ Reconciling(h2)
          /\ RefOrder(h1) # RefOrder(h2)
          /\ Done(h1) /\ Done(h2)
          /\ handlers[h1].puts = 1 /\ handlers[h2].puts = 1
    /\ \A o \in Orders : status0[o] \in Unsettled /\ status[o] = "processing"

\* C20: a verified paid Completed event with an order id is answered 200
\* only if its read succeeded and either found the order 'processing' or
\* 'completed' or was followed by a successful write of 'processing'.
C20_AckImpliesSettled ==
    \A h \in H :
        (/\ Done(h)
         /\ handlers[h].sig = "ok"
         /\ PaidCompleted(handlers[h].ev)
         /\ ~Falsy(ParseInt(handlers[h].ev.client_reference_id))
         /\ handlers[h].code = 200)
        => IF RefOrder(h) \in Orders
           THEN /\ handlers[h].err = "none"
                /\ handlers[h].gets = 1
                /\ handlers[h].cur \in Statuses
                /\ \/ handlers[h].cur \in Settled
                   \/ /\ handlers[h].puts = 1
                      /\ updates[RefOrder(h)] >= 1
                      /\ status[RefOrder(h)] = "processing"
           ELSE FALSE
C20_Witness ==
    \E h \in H :
        /\ Done(h) /\ Reconciling(h) /\ handlers[h].code = 200
        /\ handlers[h].cur \in Unsettled
        /\ handlers[h].puts = 1
        /\ status[RefOrder(h)] = "processing"

(* ------------------- properties of create-checkout --------------------- *)
\* request r carries the configured internal key
Authorized(r) ==
    /\ requests[r].pc # "idle"
    /\ env.INTERNAL_API_KEY # ""
    /\ requests[r].req.key = env.INTERNAL_API_KEY
\* the text is the decimal numeral of a positive integer
PositiveIntegerText(t) ==
    /\ Len(t) > 0
    /\ \A i \in 1..Len(t) : IsDigit(t[i])
    /\ DigitsPrefix(t, 1, 0) > 0
PositiveIntegerAmount(a) == a.type = "number" /\ a.num % a.den = 0 /\ a.num > 0

\* C15: with the endpoint configured, an authorized request whose orderId is
\* not a positive integer or whose amount is not a positive integer is
\* answered 400 with an invalid-input error and makes no call to the payment
\* provider.
C15_InvalidInputRejected ==
    \A r \in R :
        (/\ Authorized(r)
         /\ env.APP_BASE_URL # ""
         /\ \/ ~PositiveIntegerText(requests[r].req.orderId)
            \/ ~PositiveIntegerAmount(requests[r].req.amountJpy))
        => /\ requests[r].pc = "done"
           /\ requests[r].code = 400
           /\ requests[r].error \in {"INVALID_ORDER_ID", "INVALID_AMOUNT_JPY_INTEGER_REQUIRED"}
           /\ requests[r].calls = 0

\* request r went through validation with a valid orderId and called the provider
ValidCall(r) ==
    /\ requests[r].pc # "idle"
    /\ requests[r].calls = 1
    /\ PositiveIntegerText(requests[r].req.orderId)

\* C16: two requests with the same valid orderId pass the provider the same
\* idempotency key, whatever their amounts; when both are answered 200 they
\* carry the same session id; the provider holds at most one session per
\* orderId.
C16_SessionIdempotence ==
    /\ \A r1, r2 \in R :
          (ValidCall(r1) /\ ValidCall(r2)
              /\ requests[r1].req.orderId = requests[r2].req.orderId)
          => /\ requests[r1].options.idempotencyKey = requests[r2].options.idempotencyKey
             /\ (requests[r1].code = 200 /\ requests[r2].code = 200
                    => requests[r1].sessionId = requests[r2].sessionId)
    /\ \A i, j \in 1..Len(sessions) :
          sessions[i].client_reference_id = sessions[j].client_reference_id => i = j
C16_Witness ==
    \E r1, r2 \in R :
        /\ r1 # r2
        /\ ValidCall(r1) /\ ValidCall(r2)
        /\ requests[r1].req.orderId = requests[r2].req.orderId
        /\ requests[r1].req.amountJpy # requests[r2].req.amountJpy
        /\ requests[r1].code = 200 /\ requests[r2].code = 200
        /\ requests[r1].sessionId = requests[r2].sessionId
        /\ Len(sessions) = 1

\* the key header of request r is absent or is not the configured key
BadKey(r) ==
    /\ requests[r].pc # "idle"
    /\ env.INTERNAL_API_KEY # ""
    /\ requests[r].req.key # env.INTERNAL_API_KEY

\* C17: with an internal key configured, a request whose key header is absent
\* or different is answered 401 UNAUTHORIZED, whatever its body, and makes no
\* call to the payment provider.
C17_UnauthorizedRejected ==
    \A r \in R :
        BadKey(r)
        => /\ requests[r].pc = "done"
           /\ requests[r].code = 401
           /\ requests[r].error = "UNAUTHORIZED"
           /\ requests[r].calls = 0
           /\ requests[r].sessionId = 0
C17_Witness ==
    \E r \in R :
        /\ BadKey(r)
        /\ requests[r].req.key = "guess"
        /\ ~PositiveIntegerText(requests[r].req.orderId)
        /\ requests[r].code = 401

====
